---- MODULE Spec2Model ----
(***************************************************************************)
(* Recurring-payment reminder scheduler of Voice-Tasks (hooks.ts,          *)
(* usePayments): the payment list, the email log, the localStorage         *)
(* bookkeeping, the 06:00 wake-up timer armed by the scheduling effect and *)
(* the asynchronous checkAndSendEmails run with its re-entrancy guard.     *)
(*                                                                         *)
(* The clock is a pair [day, after6]: the day number counted from         *)
(* StartDate and whether the local time is at or after 06:00.  A stored    *)
(* timestamp (lastPaidDate, sentAt) keeps the day, the finest part any     *)
(* reader of it uses (getMonth, getFullYear, toDateString).  A React state *)
(* change marks the scheduling effect as pending; the effect (cleanup,     *)
(* then body) runs before any other event is handled.                      *)
(*                                                                         *)
(* checkAndSendEmails is split at its awaits: the synchronous part up to   *)
(* the first Notifier call belongs to the step that invokes it (effect or  *)
(* timer), the return of a Notifier call and the end of the 2.5 s delay    *)
(* are steps of their own.  State updates made in one synchronous stretch  *)
(* are rendered together.  Payment ids are unique and never reused.        *)
(* The variables called, lastCheck, lastSched, returned and endedRun       *)
(* record what the latest step did; attemptedToday, ops and                *)
(* run.logsAtStart are history kept for the properties.                    *)
(***************************************************************************)
EXTENDS Integers, Sequences, FiniteSets, TLC

\* ------------------------------------------------------------------ bounds
MaxDays == 2
MaxPayments == 2
MaxLogs == 3
MaxOps == 4
CalcMaxDay == 400
MaxTasks == 2
MaxHistory == 5
MaxTaskOps == 7

\* ------------------------------------------------------------ input domains
StartDate == <<2025, 4, 30>>
DueDays == {1, 30}
Amounts == {650}
ServiceNames == {"Netflix"}
DefaultRecipient == "doks23@gmail.com"
Recipients == {DefaultRecipient, "other@example.com"}
PaymentIds == <<"p1", "p2", "p3", "p4">>
None == "null"
NoDate == <<0, 0, 0>>
NoTime == [day |-> 0]
NoRun == [toSend |-> <<>>, i |-> 0, recipientEmail |-> None, todayStr |-> NoDate,
          emailChanged |-> FALSE, hasErrors |-> FALSE, sentCount |-> 0,
          logsAtStart |-> 0]
NoResult == [result |-> "none", later |-> 0]

VARIABLES
    now,                \* the clock: [day, after6]
    configured,         \* EmailJS credentials present in the build
    payments,           \* useState payments
    emailLogs,          \* useState emailLogs (newest first)
    recipientEmail,     \* useState recipientEmail
    emailStatus,        \* useState emailStatus
    isSendingRef,       \* useRef re-entrancy guard
    lastEmailSentDate,  \* localStorage 'lastEmailSentDate'
    lastEmailSentTo,    \* localStorage 'lastEmailSentTo'
    timerId,            \* the armed setTimeouts, each with its closure
    pendingEffect,      \* a dependency of the scheduling effect changed
    pc,                 \* position of the running check: idle, calling, delay
    run,                \* locals of the running check, and the length the
                        \* log had when it started
    nextId,             \* number of payment ids handed out so far
    ops,                \* number of user actions and reloads so far
    called,             \* payment id the Notifier was invoked for in this step
    attemptedToday,     \* ids the Notifier was invoked for on the current day
    lastCheck,          \* outcome of the check invoked in this step
    lastSched,          \* branch the scheduling effect took in this step
    returned,           \* what the Notifier returned in this step, and the
                        \* number of items of toSend after the one it was for
    endedRun,           \* locals of the run that left its loop in this step
    tasks,              \* TasksPage: useState tasks
    history,            \* TasksPage: useState history, a list of task lists
    historyIndex,       \* TasksPage: useState historyIndex, counted from 0
    processing,         \* <<>> or <<c>>: the handleProcess call awaiting the
                        \* extraction, with the render values c it closed over
    nextTaskId,         \* number of task ids handed out so far
    taskOps,            \* number of TasksPage actions so far
    lastTaskOp          \* what the TasksPage did in this step

hookVars == <<now, configured, payments, emailLogs, recipientEmail, emailStatus,
              isSendingRef, lastEmailSentDate, lastEmailSentTo, timerId,
              pendingEffect, pc, run, nextId, ops, called, attemptedToday,
              lastCheck, lastSched, returned, endedRun>>

taskVars == <<tasks, history, historyIndex, processing, nextTaskId, taskOps,
              lastTaskOp>>

vars == <<hookVars, taskVars>>

\* ---------------------------------------------------------------- calendar
IsLeap(y) == (y % 4 = 0 /\ y % 100 # 0) \/ y % 400 = 0

\* new Date(year, month + 1, 0).getDate(); months are 1..12 here
DaysInMonth(y, m) ==
    IF m = 2 THEN (IF IsLeap(y) THEN 29 ELSE 28)
    ELSE IF m \in {4, 6, 9, 11} THEN 30 ELSE 31

\* Date.setDate(getDate() + 1): rolls into the next month and year
Tomorrow(d) ==
    IF d[3] < DaysInMonth(d[1], d[2]) THEN <<d[1], d[2], d[3] + 1>>
    ELSE IF d[2] < 12 THEN <<d[1], d[2] + 1, 1>>
    ELSE <<d[1] + 1, 1, 1>>

\* the date k days after d, month by month (k applications of Tomorrow)
RECURSIVE AddDays(_, _)
AddDays(d, k) ==
    LET left == DaysInMonth(d[1], d[2]) - d[3]
    IN  IF k <= left THEN <<d[1], d[2], d[3] + k>>
        ELSE AddDays(Tomorrow(<<d[1], d[2], DaysInMonth(d[1], d[2])>>), k - left - 1)

\* local calendar date of day number n; day 1 is StartDate
DateOf(n) == IF n <= 1 THEN StartDate ELSE AddDays(StartDate, n - 1)

\* new Date().toISOString(): the stored form of an instant
toISOString(t) == [day |-> t.day]

ToDateString(t) == DateOf(t.day)
GetFullYear(t) == DateOf(t.day)[1]
GetMonth(t) == DateOf(t.day)[2]
GetDate(t) == DateOf(t.day)[3]

\* ------------------------------------------------------------- calculator
\* variant: the year of the last payment is not compared
isPaidThisMonth_monthOnly(p, t) ==
    /\ p.lastPaidDate # NoTime
    /\ GetMonth(p.lastPaidDate) = GetMonth(t)

isPaidThisMonth(p, t) ==
    /\ p.lastPaidDate # NoTime
    /\ GetMonth(p.lastPaidDate) = GetMonth(t)
    /\ GetFullYear(p.lastPaidDate) = GetFullYear(t)

\* variant: no overdue test
isActionable_noOverdue(p, t) ==
    LET currentDay == GetDate(t)
        tomorrow == Tomorrow(ToDateString(t))
        tomorrowDay == tomorrow[3]
        daysInTomorrowMonth == DaysInMonth(tomorrow[1], tomorrow[2])
        isToday == p.dueDay = currentDay
        isTomorrow == \/ p.dueDay = tomorrowDay
                      \/ (tomorrowDay = daysInTomorrowMonth /\ p.dueDay > daysInTomorrowMonth)
    IN  /\ ~isPaidThisMonth(p, t)
        /\ (isToday \/ isTomorrow)

\* variant: no end-of-month rule
isActionable_noMonthEnd(p, t) ==
    LET currentDay == GetDate(t)
        tomorrow == Tomorrow(ToDateString(t))
        tomorrowDay == tomorrow[3]
        isToday == p.dueDay = currentDay
        isTomorrow == p.dueDay = tomorrowDay
        isOverdue == p.dueDay < currentDay
    IN  /\ ~isPaidThisMonth(p, t)
        /\ (isToday \/ isTomorrow \/ isOverdue)

\* variant: no due-tomorrow test
isActionable_overdueOnly(p, t) ==
    LET currentDay == GetDate(t)
        isToday == p.dueDay = currentDay
        isOverdue == p.dueDay < currentDay
    IN  /\ ~isPaidThisMonth(p, t)
        /\ (isToday \/ isOverdue)

isActionable(p, t) ==
    LET currentDay == GetDate(t)
        tomorrow == Tomorrow(ToDateString(t))
        tomorrowDay == tomorrow[3]
        daysInTomorrowMonth == DaysInMonth(tomorrow[1], tomorrow[2])
        isToday == p.dueDay = currentDay
        isTomorrow == \/ p.dueDay = tomorrowDay
                      \/ (tomorrowDay = daysInTomorrowMonth /\ p.dueDay > daysInTomorrowMonth)
        isOverdue == p.dueDay < currentDay
    IN  /\ ~isPaidThisMonth(p, t)
        /\ (isToday \/ isTomorrow \/ isOverdue)

actionablePayments(ps, t) == SelectSeq(ps, LAMBDA p : isActionable(p, t))

\* the useMemo behind the list the page shows, evaluated at instant t
duePayments(ps, t) ==
    LET today == ToDateString(t)
        currentDay == today[3]
        currentMonth == today[2]
        currentYear == today[1]
        tomorrow == Tomorrow(today)
        tomorrowDay == tomorrow[3]
        tomorrowMonth == tomorrow[2]
        tomorrowYear == tomorrow[1]
        daysInTomorrowMonth == DaysInMonth(tomorrowYear, tomorrowMonth)
        keep(p) ==
            LET paid == /\ p.lastPaidDate # NoTime
                        /\ ToDateString(p.lastPaidDate)[2] = currentMonth
                        /\ ToDateString(p.lastPaidDate)[1] = currentYear
            IN  IF paid THEN FALSE
                ELSE \/ p.dueDay = currentDay
                     \/ p.dueDay = tomorrowDay
                     \/ (tomorrowDay = daysInTomorrowMonth
                           /\ p.dueDay > daysInTomorrowMonth)
                     \/ p.dueDay < currentDay
    IN  SelectSeq(ps, keep)

\* variant: the recipient test inverted
sentPaymentIds_inverted(logs, todayStr, emailChanged) ==
    IF ~emailChanged THEN {}
    ELSE {logs[k].paymentId : k \in {j \in 1..Len(logs) :
              /\ ToDateString(logs[j].sentAt) = todayStr
              /\ logs[j].status = "success"}}

\* variant: a changed recipient does not empty the set
sentPaymentIds_noReset(logs, todayStr, emailChanged) ==
    {logs[k].paymentId : k \in {j \in 1..Len(logs) :
         /\ ToDateString(logs[j].sentAt) = todayStr
         /\ logs[j].status = "success"}}

\* ids with a success log dated today, unless the recipient changed
sentPaymentIds(logs, todayStr, emailChanged) ==
    IF emailChanged THEN {}
    ELSE {logs[k].paymentId : k \in {j \in 1..Len(logs) :
              /\ ToDateString(logs[j].sentAt) = todayStr
              /\ logs[j].status = "success"}}

\* variant: the already-sent filter is missing
paymentsToSend_noFilter(ps, logs, rcpt, t) == actionablePayments(ps, t)

\* const paymentsToSend = actionablePayments.filter(p => !sentPaymentIds.has(p.id))
paymentsToSend(ps, logs, rcpt, t) ==
    LET sent == sentPaymentIds(logs, ToDateString(t), lastEmailSentTo # rcpt)
    IN  SelectSeq(actionablePayments(ps, t), LAMBDA p : p.id \notin sent)

closure == [payments |-> payments, recipientEmail |-> recipientEmail,
            emailLogs |-> emailLogs, emailStatus |-> emailStatus]

\* --------------------------------------------------------------- the check
\* variant: the guard is never seen as held
runInProgress_never == FALSE

\* if (isSendingRef.current) return;
runInProgress == isSendingRef

\* variant: the missing_config branch is missing
resolveStatus_noMissingConfig(missingConfig, sentCount, hasErrors) ==
    IF sentCount > 0 /\ ~hasErrors THEN "sent"
    ELSE IF hasErrors THEN "error"
    ELSE emailStatus

\* variant: a success is enough for sent, failures are not looked at
resolveStatus_anySuccess(missingConfig, sentCount, hasErrors) ==
    IF missingConfig THEN "missing_config"
    ELSE IF sentCount > 0 THEN "sent"
    ELSE IF hasErrors THEN "error"
    ELSE emailStatus

\* variant: the error branch is missing
resolveStatus_noError(missingConfig, sentCount, hasErrors) ==
    IF missingConfig THEN "missing_config"
    ELSE IF sentCount > 0 /\ ~hasErrors THEN "sent"
    ELSE emailStatus

\* variant: every run that was not aborted ends sent
resolveStatus_alwaysSent(missingConfig, sentCount, hasErrors) ==
    IF missingConfig THEN "missing_config" ELSE "sent"

\* final status of a run; "sending" stays when no branch applies
resolveStatus(missingConfig, sentCount, hasErrors) ==
    IF missingConfig THEN "missing_config"
    ELSE IF sentCount > 0 /\ ~hasErrors THEN "sent"
    ELSE IF hasErrors THEN "error"
    ELSE emailStatus

\* variant: already_sent is set whatever the status was
alreadySentStatus_always(status) == "already_sent"

\* if (emailStatus !== 'sent' && emailStatus !== 'already_sent')
\*     setEmailStatus('already_sent')
alreadySentStatus(status) ==
    IF status \notin {"sent", "already_sent"} THEN "already_sent" ELSE status

\* the synchronous part of checkAndSendEmails, up to the first Notifier call;
\* cl holds the values the closure captured
checkAndSendEmails(cl) ==
    LET toSend == paymentsToSend(cl.payments, cl.emailLogs, cl.recipientEmail, now)
    IN
    IF runInProgress THEN
        /\ lastCheck' = "dropped"
        /\ called' = None
        /\ UNCHANGED <<emailStatus, isSendingRef, pc, run, attemptedToday>>
    ELSE IF actionablePayments(cl.payments, now) = <<>> THEN
        /\ lastCheck' = "no_actionable"
        /\ emailStatus' = IF cl.emailStatus \in {"error", "missing_config"}
                          THEN "idle" ELSE emailStatus
        /\ called' = None
        /\ UNCHANGED <<isSendingRef, pc, run, attemptedToday>>
    ELSE IF toSend = <<>> THEN
        /\ lastCheck' = "already_sent"
        /\ emailStatus' = IF alreadySentStatus(cl.emailStatus) # cl.emailStatus
                          THEN alreadySentStatus(cl.emailStatus) ELSE emailStatus
        /\ called' = None
        /\ UNCHANGED <<isSendingRef, pc, run, attemptedToday>>
    ELSE
        /\ lastCheck' = "started"
        /\ isSendingRef' = TRUE
        /\ emailStatus' = "sending"
        /\ pc' = "calling"
        /\ run' = [toSend |-> toSend, i |-> 1,
                   recipientEmail |-> cl.recipientEmail,
                   todayStr |-> ToDateString(now),
                   emailChanged |-> lastEmailSentTo # cl.recipientEmail,
                   hasErrors |-> FALSE, sentCount |-> 0,
                   logsAtStart |-> Len(emailLogs)]
        /\ called' = toSend[1].id
        /\ attemptedToday' = attemptedToday \cup {toSend[1].id}

\* ------------------------------------------------------------ the scheduler
\* variant: the already-sent-today branch is missing
schedBranch_noSentToday(lastSentDate, t) ==
    IF t.after6 THEN "catchup" ELSE "today"

\* variant: after 06:00 the effect waits for the next day instead
schedBranch_noCatchup(lastSentDate, t) ==
    IF lastSentDate = ToDateString(t) \/ t.after6 THEN "tomorrow"
    ELSE "today"

\* variant: before 06:00 the check is run at once as well
schedBranch_noWait(lastSentDate, t) ==
    IF lastSentDate = ToDateString(t) THEN "tomorrow" ELSE "catchup"

\* which branch the scheduling effect takes at time t
schedBranch(lastSentDate, t) ==
    IF lastSentDate = ToDateString(t) THEN "tomorrow"
    ELSE IF t.after6 THEN "catchup"
    ELSE "today"

\* the timer is due once the clock has reached 06:00 of its target day
due(timer) == \/ now.day > timer.target
              \/ (now.day = timer.target /\ now.after6)

timerDue == \E k \in 1..Len(timerId) : due(timerId[k])

\* variant: the engine marks every payment as paid
engineFrame_settles ==
    /\ payments' = [k \in 1..Len(payments) |->
                      [payments[k] EXCEPT !.lastPaidDate = toISOString(now)]]
    /\ UNCHANGED <<now, configured, recipientEmail, nextId, ops>>
    /\ UNCHANGED taskVars

\* what no step of the scheduler or of checkAndSendEmails writes: the clock,
\* the build, the payments, the recipient
engineFrame ==
    /\ UNCHANGED <<now, configured, payments, recipientEmail, nextId, ops>>
    /\ UNCHANGED taskVars

\* variant: the cleanup does not clear the timer
clearTimeout_noop(timers) == timers

\* return () => { if (timerId) clearTimeout(timerId); }
clearTimeout(timers) == <<>>

\* cleanup of the previous effect, then the effect body
schedulingEffect ==
    /\ pendingEffect
    /\ lastSched' = schedBranch(lastEmailSentDate, now)
    /\ returned' = NoResult
    /\ endedRun' = NoRun
    /\ CASE lastSched' = "tomorrow" ->
              /\ timerId' = clearTimeout(timerId)
                              \o <<[target |-> now.day + 1, cl |-> closure]>>
              /\ pendingEffect' = FALSE
              /\ lastCheck' = "none"
              /\ called' = None
              /\ UNCHANGED <<emailStatus, isSendingRef, pc, run, attemptedToday>>
         [] lastSched' = "catchup" ->
              /\ timerId' = clearTimeout(timerId)
              /\ checkAndSendEmails(closure)
              /\ pendingEffect' = (emailStatus' # emailStatus)
         [] lastSched' = "today" ->
              /\ timerId' = clearTimeout(timerId)
                              \o <<[target |-> now.day, cl |-> closure]>>
              /\ pendingEffect' = FALSE
              /\ lastCheck' = "none"
              /\ called' = None
              /\ UNCHANGED <<emailStatus, isSendingRef, pc, run, attemptedToday>>
    /\ engineFrame
    /\ UNCHANGED <<emailLogs, lastEmailSentDate, lastEmailSentTo>>

\* the single-shot timer fires and calls the closure it was armed with
timerFire ==
    /\ ~pendingEffect
    /\ \E k \in 1..Len(timerId) :
          /\ due(timerId[k])
          /\ timerId' = SubSeq(timerId, 1, k - 1) \o SubSeq(timerId, k + 1, Len(timerId))
          /\ checkAndSendEmails(timerId[k].cl)
    /\ pendingEffect' = (emailStatus' # emailStatus)
    /\ lastSched' = "none"
    /\ returned' = NoResult
    /\ endedRun' = NoRun
    /\ engineFrame
    /\ UNCHANGED <<emailLogs, lastEmailSentDate, lastEmailSentTo>>

\* ------------------------------------------------------------ the send loop
quiet == /\ called' = None
         /\ lastCheck' = "none"
         /\ lastSched' = "none"
         /\ returned' = NoResult
         /\ endedRun' = NoRun

\* variant: the guard is not released after the loop
guardAfterRun_held == TRUE

\* isSendingRef.current = false
guardAfterRun == FALSE

\* after the loop: release the guard and resolve the status
finishRun(missingConfig, sentCount, hasErrors) ==
    /\ isSendingRef' = guardAfterRun
    /\ emailStatus' = resolveStatus(missingConfig, sentCount, hasErrors)
    /\ IF emailStatus' = "sent"
       THEN /\ lastEmailSentDate' = run.todayStr
            /\ lastEmailSentTo' = run.recipientEmail
       ELSE UNCHANGED <<lastEmailSentDate, lastEmailSentTo>>
    /\ pc' = "idle"
    /\ run' = NoRun

\* what sendPaymentReminderEmail can return
notifierResults == IF configured THEN {"success", "error"} ELSE {"missing_config"}

\* variant: a failed send breaks the loop as well
abortsLoop_onError(result) == result # "success"

\* if (result === 'missing_config') { missingConfig = true; break; }
abortsLoop(result) == result = "missing_config"

\* variant: the new entry replaces the log
appendLog_replace(log, logs) == <<log>>

\* setEmailLogs(prev => [log, ...prev])
appendLog(log, logs) == <<log>> \o logs

\* the awaited sendPaymentReminderEmail returns
notifierReturn(result) ==
    /\ ~pendingEffect
    /\ pc = "calling"
    /\ result \in notifierResults
    /\ IF abortsLoop(result) THEN
          /\ finishRun(TRUE, run.sentCount, run.hasErrors)
          /\ UNCHANGED emailLogs
       ELSE
          LET payment == run.toSend[run.i]
              log == [paymentId |-> payment.id,
                      serviceName |-> payment.serviceName,
                      amount |-> payment.amount,
                      sentAt |-> toISOString(now),
                      status |-> IF result = "success" THEN "success" ELSE "failed"]
              sentCount == run.sentCount + (IF result = "success" THEN 1 ELSE 0)
              hasErrors == run.hasErrors \/ result = "error"
          IN  /\ Len(emailLogs) < MaxLogs
              /\ emailLogs' = appendLog(log, emailLogs)
              /\ IF Len(run.toSend) > 1 THEN
                    /\ pc' = "delay"
                    /\ run' = [run EXCEPT !.sentCount = sentCount,
                                          !.hasErrors = hasErrors]
                    /\ UNCHANGED <<isSendingRef, emailStatus,
                                   lastEmailSentDate, lastEmailSentTo>>
                 ELSE finishRun(FALSE, sentCount, hasErrors)
    /\ pendingEffect' = (emailLogs' # emailLogs \/ emailStatus' # emailStatus)
    /\ called' = None
    /\ lastCheck' = "none"
    /\ lastSched' = "none"
    /\ returned' = [result |-> result, later |-> Len(run.toSend) - run.i]
    /\ endedRun' = IF pc' = "idle" THEN run ELSE NoRun
    /\ engineFrame
    /\ UNCHANGED <<timerId, attemptedToday>>

\* the 2.5 s inter-send delay elapses: next item, or the loop ends
delayDone ==
    /\ ~pendingEffect
    /\ pc = "delay"
    /\ IF run.i < Len(run.toSend) THEN
          /\ pc' = "calling"
          /\ run' = [run EXCEPT !.i = run.i + 1]
          /\ called' = run.toSend[run.i + 1].id
          /\ attemptedToday' = attemptedToday \cup {called'}
          /\ UNCHANGED <<isSendingRef, emailStatus, lastEmailSentDate,
                         lastEmailSentTo>>
       ELSE
          /\ finishRun(FALSE, run.sentCount, run.hasErrors)
          /\ called' = None
          /\ UNCHANGED attemptedToday
    /\ pendingEffect' = (emailStatus' # emailStatus)
    /\ lastCheck' = "none"
    /\ lastSched' = "none"
    /\ returned' = NoResult
    /\ endedRun' = IF pc' = "idle" THEN run ELSE NoRun
    /\ engineFrame
    /\ UNCHANGED <<emailLogs, timerId>>

\* ------------------------------------------------------------- user actions
userFrame ==
    /\ ops < MaxOps
    /\ ops' = ops + 1
    /\ pendingEffect' = TRUE
    /\ quiet
    /\ UNCHANGED <<now, configured, emailLogs, emailStatus, isSendingRef,
                   lastEmailSentDate, lastEmailSentTo, timerId, pc, run,
                   attemptedToday>>
    /\ UNCHANGED taskVars

paymentIdsOf(ps) == {ps[k].id : k \in 1..Len(ps)}

addPayment(payment) ==
    /\ ~pendingEffect
    /\ nextId < MaxPayments
    /\ payment.id = PaymentIds[nextId + 1]
    /\ payments' = Append(payments, payment)
    /\ nextId' = nextId + 1
    /\ UNCHANGED recipientEmail
    /\ userFrame

deletePayment(id) ==
    /\ ~pendingEffect
    /\ id \in paymentIdsOf(payments)
    /\ payments' = SelectSeq(payments, LAMBDA p : p.id # id)
    /\ UNCHANGED <<recipientEmail, nextId>>
    /\ userFrame

editPayment(id, updatedPayment) ==
    /\ ~pendingEffect
    /\ id \in paymentIdsOf(payments)
    /\ payments' = [k \in 1..Len(payments) |->
                      IF payments[k].id = id
                      THEN [payments[k] EXCEPT !.dueDay = updatedPayment.dueDay,
                                               !.amount = updatedPayment.amount]
                      ELSE payments[k]]
    /\ UNCHANGED <<recipientEmail, nextId>>
    /\ userFrame

\* variant: the toggle never removes the date
toggled_alwaysSets(p, t) == [p EXCEPT !.lastPaidDate = toISOString(t)]

\* the chosen payment after the toggle at instant t
toggled(p, t) ==
    IF isPaidThisMonth(p, t)
    THEN [p EXCEPT !.lastPaidDate = NoTime]
    ELSE [p EXCEPT !.lastPaidDate = toISOString(t)]

togglePaymentStatus(id) ==
    /\ ~pendingEffect
    /\ id \in paymentIdsOf(payments)
    /\ payments' = [k \in 1..Len(payments) |->
                      IF payments[k].id # id THEN payments[k]
                      ELSE toggled(payments[k], now)]
    /\ UNCHANGED <<recipientEmail, nextId>>
    /\ userFrame

setRecipientEmail(r) ==
    /\ ~pendingEffect
    /\ r # recipientEmail
    /\ recipientEmail' = r
    /\ UNCHANGED <<payments, nextId>>
    /\ userFrame

\* ------------------------------------------------------- clock and restart
\* time passes: 06:00 is reached, or midnight; an armed timer fires on time
tick ==
    /\ ~pendingEffect
    /\ ~timerDue
    /\ IF now.after6
       THEN /\ now.day < MaxDays
            /\ now' = [day |-> now.day + 1, after6 |-> FALSE]
            /\ attemptedToday' = {}
       ELSE /\ now' = [now EXCEPT !.after6 = TRUE]
            /\ UNCHANGED attemptedToday
    /\ quiet
    /\ UNCHANGED <<configured, payments, emailLogs, recipientEmail, emailStatus,
                   isSendingRef, lastEmailSentDate, lastEmailSentTo, timerId,
                   pendingEffect, pc, run, nextId, ops>>
    /\ UNCHANGED taskVars

\* the page is reloaded: React state is rebuilt from localStorage, the timer
\* and any running check are gone, the effect runs on mount
restart ==
    /\ ops < MaxOps
    /\ ops' = ops + 1
    /\ emailStatus' = "idle"
    /\ isSendingRef' = FALSE
    /\ timerId' = <<>>
    /\ pc' = "idle"
    /\ run' = NoRun
    /\ pendingEffect' = TRUE
    /\ quiet
    /\ UNCHANGED <<now, configured, payments, emailLogs, recipientEmail,
                   lastEmailSentDate, lastEmailSentTo, nextId, attemptedToday>>
    /\ UNCHANGED taskVars

\* the TasksPage with nothing stored and nothing done on it
noTasksPage ==
    /\ tasks = <<>>
    /\ history = <<tasks>>
    /\ historyIndex = 0
    /\ processing = <<>>
    /\ nextTaskId = 0
    /\ taskOps = 0
    /\ lastTaskOp = "none"

\* ------------------------------------------------------------ specification
Init ==
    /\ now \in [day : {1}, after6 : BOOLEAN]
    /\ configured \in BOOLEAN
    /\ payments = <<>>
    /\ emailLogs = <<>>
    /\ recipientEmail = DefaultRecipient
    /\ emailStatus = "idle"
    /\ isSendingRef = FALSE
    /\ lastEmailSentDate = NoDate
    /\ lastEmailSentTo = None
    /\ timerId = <<>>
    /\ pendingEffect = TRUE
    /\ pc = "idle"
    /\ run = NoRun
    /\ nextId = 0
    /\ ops = 0
    /\ called = None
    /\ attemptedToday = {}
    /\ lastCheck = "none"
    /\ lastSched = "none"
    /\ returned = NoResult
    /\ endedRun = NoRun
    /\ noTasksPage

newPayments == [id : {PaymentIds[k] : k \in 1..Len(PaymentIds)},
                serviceName : ServiceNames, amount : Amounts,
                dueDay : DueDays, lastPaidDate : {NoTime}]

Next ==
    \/ schedulingEffect
    \/ timerFire
    \/ \E result \in {"success", "error", "missing_config"} : notifierReturn(result)
    \/ delayDone
    \/ \E payment \in newPayments : addPayment(payment)
    \/ \E id \in paymentIdsOf(payments) : deletePayment(id)
    \/ \E id \in paymentIdsOf(payments), upd \in [dueDay : DueDays, amount : Amounts] :
          editPayment(id, upd)
    \/ \E id \in paymentIdsOf(payments) : togglePaymentStatus(id)
    \/ \E r \in Recipients : setRecipientEmail(r)
    \/ tick
    \/ restart

Spec == Init /\ [][Next]_vars

\* the effect runs after every render that changed one of its inputs, the
\* inter-send pause elapses, and every awaited Notifier call returns
LiveSpec ==
    /\ Spec
    /\ WF_vars(schedulingEffect)
    /\ WF_vars(delayDone)
    /\ WF_vars(\E result \in notifierResults : notifierReturn(result))

\* ----------------------------------------------- the calculator on any date
\* how long before the day of the check a stored lastPaidDate may lie
PaidDaysBefore == {0, 1, 31, 365}

\* a stored payment: any dueDay the form accepts, never paid or paid earlier
storedPayments(id, t) ==
    [id : {id}, serviceName : ServiceNames, amount : Amounts, dueDay : 1..31,
     lastPaidDate : {NoTime} \cup
                    {[day |-> t.day - b] : b \in {c \in PaidDaysBefore : c < t.day}}]

\* the app is opened after 06:00 of any day on payments stored earlier, with
\* nothing sent before
CalcInit ==
    /\ now \in [day : 1..CalcMaxDay, after6 : {TRUE}]
    /\ configured = TRUE
    /\ payments \in {<<p>> \o rest :
                        p \in storedPayments(PaymentIds[1], now),
                        rest \in {<<>>,
                                  <<[id |-> PaymentIds[2], serviceName |-> "Netflix",
                                     amount |-> 650, dueDay |-> 15,
                                     lastPaidDate |-> NoTime]>>}}
    /\ emailLogs = <<>>
    /\ recipientEmail = DefaultRecipient
    /\ emailStatus = "idle"
    /\ isSendingRef = FALSE
    /\ lastEmailSentDate = NoDate
    /\ lastEmailSentTo = None
    /\ timerId = <<>>
    /\ pendingEffect = TRUE
    /\ pc = "idle"
    /\ run = NoRun
    /\ nextId = Len(payments)
    /\ ops = 0
    /\ called = None
    /\ attemptedToday = {}
    /\ lastCheck = "none"
    /\ lastSched = "none"
    /\ returned = NoResult
    /\ endedRun = NoRun
    /\ noTasksPage

\* the mount effect runs the check, and with it the calculator
CalcNext == schedulingEffect

CalcSpec == CalcInit /\ [][CalcNext]_vars

\* ------------------------------------------------------------ the TasksPage
TaskIds == <<"t1", "t2", "t3">>
TaskTitles == {"call", "mail"}

\* a task as the extraction delivers it
newTask(id) == [id |-> id, title |-> "call", isCompleted |-> FALSE]

taskIdsOf(ts) == {ts[k].id : k \in 1..Len(ts)}

\* the values of the render an event handler closed over
render == [tasks |-> tasks, history |-> history, historyIndex |-> historyIndex]

\* const newHistory = history.slice(0, historyIndex + 1); newHistory.push(newTasks)
newHistoryOf(h, i, newTasks) == Append(SubSeq(h, 1, i + 1), newTasks)

\* updateTasksWithHistory called from a handler of render c
updateTasksWithHistory(c, newTasks) ==
    LET newHistory == newHistoryOf(c.history, c.historyIndex, newTasks)
    IN  /\ Len(newHistory) <= MaxHistory
        /\ history' = newHistory
        /\ historyIndex' = Len(newHistory) - 1
        /\ tasks' = newTasks

\* every step of the TasksPage counts as one action and leaves the hook alone
taskFrame(op) ==
    /\ taskOps < MaxTaskOps
    /\ taskOps' = taskOps + 1
    /\ lastTaskOp' = op
    /\ UNCHANGED hookVars

toggleComplete(id) ==
    /\ id \in taskIdsOf(tasks)
    /\ updateTasksWithHistory(render,
          [k \in 1..Len(tasks) |->
              IF tasks[k].id = id
              THEN [tasks[k] EXCEPT !.isCompleted = ~tasks[k].isCompleted]
              ELSE tasks[k]])
    /\ UNCHANGED <<processing, nextTaskId>>
    /\ taskFrame("complete")

confirmDelete(id) ==
    /\ id \in taskIdsOf(tasks)
    /\ updateTasksWithHistory(render, SelectSeq(tasks, LAMBDA t : t.id # id))
    /\ UNCHANGED <<processing, nextTaskId>>
    /\ taskFrame("delete")

saveEdit(editingId, editForm) ==
    /\ editingId \in taskIdsOf(tasks)
    /\ updateTasksWithHistory(render,
          [k \in 1..Len(tasks) |->
              IF tasks[k].id = editingId
              THEN [tasks[k] EXCEPT !.title = editForm.title]
              ELSE tasks[k]])
    /\ UNCHANGED <<processing, nextTaskId>>
    /\ taskFrame("edit")

\* variant: undo shows the list of the index it leaves
undoneTasks_same(h, i) == h[i + 1]

\* history[historyIndex - 1]
undoneTasks(h, i) == h[i]

undo ==
    /\ IF historyIndex > 0
       THEN /\ historyIndex' = historyIndex - 1
            /\ tasks' = undoneTasks(history, historyIndex)
       ELSE UNCHANGED <<historyIndex, tasks>>
    /\ UNCHANGED <<history, processing, nextTaskId>>
    /\ taskFrame("undo")

redo ==
    /\ IF historyIndex < Len(history) - 1
       THEN /\ historyIndex' = historyIndex + 1
            /\ tasks' = history[historyIndex + 2]
       ELSE UNCHANGED <<historyIndex, tasks>>
    /\ UNCHANGED <<history, processing, nextTaskId>>
    /\ taskFrame("redo")

\* handleProcess up to its await; the Process button is disabled meanwhile
handleProcess ==
    /\ processing = <<>>
    /\ processing' = <<render>>
    /\ UNCHANGED <<tasks, history, historyIndex, nextTaskId>>
    /\ taskFrame("process")

\* processTranscriptToTasks resolves with n tasks and handleProcess goes on
\* with the values of the render it was called in
processReturn(n) ==
    /\ processing # <<>>
    /\ nextTaskId + n <= MaxTasks
    /\ LET newTasks == [k \in 1..n |-> newTask(TaskIds[nextTaskId + k])]
       IN  updateTasksWithHistory(processing[1], newTasks \o processing[1].tasks)
    /\ nextTaskId' = nextTaskId + n
    /\ processing' = <<>>
    /\ taskFrame("processed")

\* the page is reloaded: tasks come back from localStorage, history starts anew
taskReload ==
    /\ history' = <<tasks>>
    /\ historyIndex' = 0
    /\ processing' = <<>>
    /\ UNCHANGED <<tasks, nextTaskId>>
    /\ taskFrame("reload")

TaskInit == Init /\ now.after6 /\ configured

TaskNext ==
    \/ \E id \in taskIdsOf(tasks) : toggleComplete(id)
    \/ \E id \in taskIdsOf(tasks) : confirmDelete(id)
    \/ \E id \in taskIdsOf(tasks), f \in [title : TaskTitles] : saveEdit(id, f)
    \/ undo
    \/ redo
    \/ handleProcess
    \/ \E n \in 0..MaxTasks : processReturn(n)
    \/ taskReload

TaskSpec == TaskInit /\ [][TaskNext]_vars

\* ------------------------------------------------------------------ claims
runEnded == endedRun # NoRun

toSendIds(r) == {r.toSend[k].id : k \in 1..Len(r.toSend)}

\* the log holds a success entry for id whose sentAt falls on date d
hasSuccessOn(logs, id, d) ==
    \E k \in 1..Len(logs) : /\ logs[k].paymentId = id
                            /\ logs[k].status = "success"
                            /\ ToDateString(logs[k].sentAt) = d

\* C1: when a run starts, an obligation that has a success log entry dated
\* today, with the stored lastEmailSentTo equal to the current recipient, is
\* not among the items the run will send; and the Notifier is only ever
\* invoked for the current item of the running run's fixed toSend list.
Thm_C1 ==
    [][ /\ (lastCheck' = "started" =>
              \A id \in toSendIds(run') :
                 ~(/\ hasSuccessOn(emailLogs, id, ToDateString(now))
                   /\ lastEmailSentTo = recipientEmail))
        /\ (called' # None =>
              pc' = "calling" /\ called' = run'.toSend[run'.i].id)
        /\ (pc # "idle" /\ pc' # "idle" => run'.toSend = run.toSend)
      ]_vars

\* C1 witness: a run has just started and left out an actionable obligation
\* because of its success entry of today
Wit_C1 ==
    /\ lastCheck = "started"
    /\ \E k \in 1..Len(payments) :
          /\ isActionable(payments[k], now)
          /\ hasSuccessOn(emailLogs, payments[k].id, ToDateString(now))
          /\ lastEmailSentTo = recipientEmail
          /\ payments[k].id \notin toSendIds(run)

\* C2 (as stated): the Notifier is never invoked for an obligation it was
\* already invoked for on the same calendar day.
Cex_C2 ==
    [][ (called' # None /\ now'.day = now.day) => called' \notin attemptedToday ]_vars

\* C2 (amended): within a run the Notifier is invoked at most once per
\* obligation; an obligation already attempted on the same day is attempted
\* again only when the log holds no success entry for it dated the run's day
\* or the stored recipient differed from the current one when the run started.
Thm_C2 ==
    [][ called' # None =>
          /\ \A j \in 1..(run'.i - 1) : run'.toSend[j].id # called'
          /\ (called' \in attemptedToday =>
                \/ ~hasSuccessOn(emailLogs', called', run'.todayStr)
                \/ run'.emailChanged)
      ]_vars

\* C2 witness: a second attempt for the same obligation on the same day
Wit_C2 == called # None /\ Len(emailLogs) > 0 /\ emailLogs[1].paymentId = called
          /\ ToDateString(emailLogs[1].sentAt) = ToDateString(now)

\* C3: a check invoked while a run holds the guard is dropped: it invokes no
\* Notifier, appends nothing to the log, leaves the status, the guard and the
\* running run as they are.
Thm_C3 ==
    [][ (isSendingRef /\ lastCheck' # "none") =>
          /\ lastCheck' = "dropped"
          /\ called' = None
          /\ isSendingRef'
          /\ UNCHANGED <<emailLogs, emailStatus, pc, run,
                         lastEmailSentDate, lastEmailSentTo>>
      ]_vars

\* C3 witness: a check was dropped while the run waits in the inter-send delay
Wit_C3 == lastCheck = "dropped" /\ pc = "delay" /\ isSendingRef

Thm_C5 ==
    [][ (lastSched' # "none" /\ lastEmailSentDate # ToDateString(now) /\ now.after6) =>
          /\ lastSched' = "catchup"
          /\ lastCheck' # "none"
          /\ timerId' = <<>>
      ]_vars

\* C5 witness: the catch-up branch started a run on a day after a day on
\* which reminders were sent
Wit_C5 ==
    /\ lastSched = "catchup"
    /\ lastCheck = "started"
    /\ lastEmailSentDate # NoDate
    /\ timerId = <<>>

\* C6 (as stated): once a check has been invoked and nothing is pending or
\* running, a wake-up timer is armed for a following 06:00.
Cex_C6 == (~pendingEffect /\ pc = "idle") => timerId # <<>>

\* C7: when the Notifier returns missing_config the run ends in that step
\* with status missing_config, the guard released, the log and the
\* bookkeeping unchanged and no further Notifier call.
Thm_C7 ==
    [][ returned'.result = "missing_config" =>
          /\ runEnded'
          /\ pc' = "idle"
          /\ ~isSendingRef'
          /\ emailStatus' = "missing_config"
          /\ called' = None
          /\ UNCHANGED <<emailLogs, lastEmailSentDate, lastEmailSentTo>>
      ]_vars

\* C7 witness: missing_config was returned for an item with a later item
\* still to send
Wit_C7 ==
    /\ returned.result = "missing_config"
    /\ returned.later > 0
    /\ emailStatus = "missing_config"

\* the log entries the run ending in this step appended
entriesOfRun(r, logs) == SubSeq(logs, 1, Len(logs) - r.logsAtStart)

someSucceeded(es) == \E k \in 1..Len(es) : es[k].status = "success"
someFailed(es) == \E k \in 1..Len(es) : es[k].status = "failed"

\* a run ends sent exactly when one of its sends succeeded, none failed and
\* it did not abort, and only such a step writes the bookkeeping
sentExactlyWhen ==
    /\ runEnded' =>
         (emailStatus' = "sent" <=>
            /\ someSucceeded(entriesOfRun(run, emailLogs'))
            /\ ~someFailed(entriesOfRun(run, emailLogs'))
            /\ returned'.result # "missing_config")
    /\ (emailStatus' = "sent" /\ emailStatus # "sent") => runEnded'
    /\ ~(runEnded' /\ emailStatus' = "sent") =>
         UNCHANGED <<lastEmailSentDate, lastEmailSentTo>>

succeededIds(r, logs) ==
    {logs[k].paymentId :
        k \in {j \in 1..(Len(logs) - r.logsAtStart) : logs[j].status = "success"}}

\* C9 (as stated): a run that ends with a failed send ends with status error
\* and leaves the bookkeeping alone; when the next run starts on the same day,
\* for the same recipient, it sends none of the obligations the failed run
\* succeeded for.
Cex_C9 ==
    [][ /\ (runEnded' /\ someFailed(entriesOfRun(run, emailLogs'))) =>
              /\ emailStatus' = "error"
              /\ UNCHANGED <<lastEmailSentDate, lastEmailSentTo>>
        /\ (/\ runEnded /\ emailStatus = "error" /\ lastCheck' = "started"
            /\ endedRun.todayStr = run'.todayStr
            /\ endedRun.recipientEmail = run'.recipientEmail) =>
              toSendIds(run') \cap succeededIds(endedRun, emailLogs) = {}
      ]_vars

\* C10 (as stated): the step that follows the end of a run with status error
\* or missing_config, the re-evaluation caused by the status change, invokes
\* no Notifier.
Cex_C10 ==
    [][ (runEnded /\ emailStatus \in {"error", "missing_config"}) =>
          called' = None ]_vars

\* C11: when a run starts while the stored lastEmailSentTo differs from the
\* current recipient, the run's send list is the whole actionable list, the
\* obligations with a success entry dated today included; the Notifier is
\* invoked for the current item of that list, and unless the run stops on
\* missing_config it ends only after its last item.
Thm_C11 ==
    [][ /\ (lastCheck' = "started" /\ lastEmailSentTo # recipientEmail) =>
              /\ run'.toSend = actionablePayments(payments, now)
              /\ called' = run'.toSend[1].id
        /\ (pc # "idle" /\ run.emailChanged /\ called' # None
              /\ lastCheck' # "started") =>
              /\ run'.i = run.i + 1
              /\ called' = run.toSend[run.i + 1].id
        /\ (runEnded' /\ run.emailChanged
              /\ returned'.result # "missing_config") =>
              run.i = Len(run.toSend)
      ]_vars

\* C11 witness: a run started after the recipient changed and its send list
\* holds an obligation that has a success entry dated today
Wit_C11 ==
    /\ lastCheck = "started"
    /\ run.emailChanged
    /\ \E k \in 1..Len(run.toSend) :
          hasSuccessOn(emailLogs, run.toSend[k].id, ToDateString(now))

\* C12 (as stated): when the recipient was changed after today's run ended
\* sent (the stored date is today, the stored recipient is not the current
\* one) and obligations are actionable, the re-evaluation that follows the
\* change starts a run that sends them to the new recipient.
Cex_C12 ==
    [][ (/\ pendingEffect /\ lastSched' # "none"
         /\ pc = "idle"
         /\ lastEmailSentDate = ToDateString(now)
         /\ lastEmailSentTo # recipientEmail
         /\ actionablePayments(payments, now) # <<>>) =>
           /\ lastCheck' = "started"
           /\ run'.recipientEmail = recipientEmail
           /\ run'.toSend = actionablePayments(payments, now)
      ]_vars

\* the check has just computed its actionable list from payments and now,
\* and nothing was taken out of it as already sent
calculated == \/ lastCheck = "no_actionable"
              \/ (lastCheck = "started" /\ run.emailChanged)

\* the payment was last paid in the calendar month and year of now
settledThisMonth(p) ==
    /\ p.lastPaidDate # NoTime
    /\ DateOf(p.lastPaidDate.day)[1] = DateOf(now.day)[1]
    /\ DateOf(p.lastPaidDate.day)[2] = DateOf(now.day)[2]

\* C13: on every date and for every dueDay in 1..31, a payment last paid in
\* the current calendar month and year is not in the list the check computes;
\* a payment never paid, or last paid in another month or year, is in the list
\* exactly when the same payment without a lastPaidDate would be.
Thm_C13 ==
    calculated =>
       \A k \in 1..Len(payments) :
          LET p == payments[k]
          IN  IF settledThisMonth(p)
              THEN p.id \notin toSendIds(run)
              ELSE (p.id \in toSendIds(run)) <=>
                   isActionable([p EXCEPT !.lastPaidDate = NoTime], now)

\* C13 witness: a payment due today is left out because it was paid earlier
\* this month
Wit_C13 ==
    /\ calculated
    /\ payments[1].dueDay = GetDate(now)
    /\ settledThisMonth(payments[1])
    /\ payments[1].lastPaidDate.day < now.day
    /\ payments[1].id \notin toSendIds(run)

\* the rule of the claim for one payment: not settled this month and due
\* today, due tomorrow, folded onto tomorrow as the last day of its month, or
\* with a due day before today's day of the month
dueRule(p) ==
    LET today == DateOf(now.day)
        tomorrow == DateOf(now.day + 1)
        daysInTomorrowMonth == DaysInMonth(tomorrow[1], tomorrow[2])
    IN  /\ ~settledThisMonth(p)
        /\ \/ p.dueDay = today[3]
           \/ p.dueDay = tomorrow[3]
           \/ (tomorrow[3] = daysInTomorrowMonth /\ p.dueDay > daysInTomorrowMonth)
           \/ p.dueDay < today[3]

\* C14: the list the check computes is exactly the payments satisfying the
\* rule, in the order of the payments list, and the check finds nothing
\* actionable exactly when no payment satisfies it; an unsettled payment with
\* dueDay 10 is in the list on the 15th, one with dueDay 28 is not in it on
\* the 3rd of a month.
Thm_C14 ==
    calculated =>
       /\ run.toSend = SelectSeq(payments, dueRule)
       /\ (lastCheck = "no_actionable" <=> SelectSeq(payments, dueRule) = <<>>)
       /\ \A k \in 1..Len(payments) :
             LET p == payments[k]
             IN  /\ (GetDate(now) = 15 /\ p.dueDay = 10 /\ ~settledThisMonth(p))
                       => p.id \in toSendIds(run)
                 /\ (GetDate(now) = 3 /\ p.dueDay = 28)
                       => p.id \notin toSendIds(run)

\* C14 witness: on the 3rd of a month a payment with dueDay 28, last paid
\* more than a month ago, is not in the computed list
Wit_C14 ==
    /\ calculated
    /\ GetDate(now) = 3
    /\ payments[1].dueDay = 28
    /\ payments[1].lastPaidDate # NoTime
    /\ ~settledThisMonth(payments[1])
    /\ payments[1].id \notin toSendIds(run)

\* C15 (as stated): on the last day of a 30-day month an unsettled payment
\* with dueDay 31 is in the list the check computes.
Cex_C15 ==
    calculated =>
       \A k \in 1..Len(payments) :
          (/\ GetDate(now) = 30
           /\ DaysInMonth(GetFullYear(now), GetMonth(now)) = 30
           /\ payments[k].dueDay = 31
           /\ ~settledThisMonth(payments[k]))
             => payments[k].id \in toSendIds(run)

\* C15 (amended): on the day before the last day of a 30-day month, when
\* tomorrow is the last day of its month, an unsettled payment with dueDay 31
\* is in the list the check computes, as due tomorrow.
Thm_C15 ==
    calculated =>
       \A k \in 1..Len(payments) :
          (/\ GetDate(now) = 29
           /\ DaysInMonth(GetFullYear(now), GetMonth(now)) = 30
           /\ payments[k].dueDay = 31
           /\ ~settledThisMonth(payments[k]))
             => payments[k].id \in toSendIds(run)

\* C15 witness: the 29th of a 30-day month, dueDay 31 in the computed list
Wit_C15 ==
    /\ calculated
    /\ GetDate(now) = 29
    /\ DaysInMonth(GetFullYear(now), GetMonth(now)) = 30
    /\ payments[1].dueDay = 31
    /\ payments[1].id \in toSendIds(run)

\* C16: the list the page shows, duePayments evaluated on the payments and
\* the date of the check, is the list the check computes; the check finds
\* nothing actionable exactly when that list is empty, and computing either
\* list leaves the payments as they were.
Thm_C16 ==
    [][ (\/ lastCheck' = "no_actionable"
         \/ (lastCheck' = "started" /\ run'.emailChanged)) =>
           /\ run'.toSend = duePayments(payments, now)
           /\ (lastCheck' = "no_actionable" <=> duePayments(payments, now) = <<>>)
           /\ duePayments(payments, now) = actionablePayments(payments, now)
           /\ UNCHANGED <<payments, now>>
      ]_vars

\* C16 witness: the check computed a list of two payments, the same as the
\* page's, the first of them through the end-of-month rule
Wit_C16 ==
    /\ calculated
    /\ Len(run.toSend) = 2
    /\ run.toSend = duePayments(payments, now)
    /\ run.toSend[1].dueDay > GetDate(now) + 1

\* the step is one of the scheduler or of checkAndSendEmails: the effect ran,
\* the check was invoked, the Notifier was called or returned, a run ended, or
\* the timer, the log, the status, the guard or the bookkeeping changed
engineStep ==
    \/ lastSched' # "none" \/ lastCheck' # "none" \/ called' # None
    \/ returned' # NoResult \/ endedRun' # NoRun
    \/ timerId' # timerId \/ emailLogs' # emailLogs
    \/ emailStatus' # emailStatus \/ isSendingRef' # isSendingRef
    \/ lastEmailSentDate' # lastEmailSentDate
    \/ lastEmailSentTo' # lastEmailSentTo
    \/ pc' # pc \/ run' # run

\* the payments list changes the way one of the four user actions changes it
userChange ==
    \/ \E p \in newPayments : payments' = Append(payments, p)
    \/ \E id \in paymentIdsOf(payments) :
          payments' = SelectSeq(payments, LAMBDA p : p.id # id)
    \/ /\ Len(payments') = Len(payments)
       /\ \E k \in 1..Len(payments) :
             /\ \A j \in 1..Len(payments) : j # k => payments'[j] = payments[j]
             /\ payments'[k].id = payments[k].id
             /\ payments'[k].serviceName = payments[k].serviceName
             /\ \/ payments'[k].lastPaidDate = payments[k].lastPaidDate
                \/ /\ payments'[k].dueDay = payments[k].dueDay
                   /\ payments'[k].amount = payments[k].amount
                   /\ payments'[k].lastPaidDate \in {NoTime, toISOString(now)}

\* C17: a step of the scheduler or of the check (timer armed or fired, check,
\* Notifier call or return, status resolution) leaves the payments list and
\* every lastPaidDate as they were; the list changes only by a step that is
\* none of these and has the form of an add, a delete, an edit or a toggle.
Thm_C17 ==
    [][ /\ (engineStep => payments' = payments)
        /\ (payments' # payments => (~engineStep /\ userChange /\ ops' = ops + 1))
      ]_vars

\* C17 witness: a run ended sent and the payments it sent reminders for are
\* still in the list, still without a lastPaidDate
Wit_C17 ==
    /\ runEnded
    /\ emailStatus = "sent"
    /\ \A k \in 1..Len(endedRun.toSend) :
          \E j \in 1..Len(payments) :
             /\ payments[j] = endedRun.toSend[k]
             /\ payments[j].lastPaidDate = NoTime

\* C18: at most one timer is armed at any time; once the effect has run after
\* a change of its inputs the armed timer is the one that run armed, with the
\* payments, recipient, log and status of now, so that a timer armed before
\* the change never calls the check; and a reload that ends a run or resets
\* the status leaves no timer armed.
Thm_C18 ==
    [][ /\ Len(timerId') <= 1
        /\ (~pendingEffect' =>
              \A k \in 1..Len(timerId') : timerId'[k].cl = closure')
        /\ (lastSched' \in {"today", "tomorrow"} =>
              timerId' = <<[target |-> IF lastSched' = "today" THEN now.day
                                       ELSE now.day + 1,
                            cl |-> closure]>>)
        /\ (lastSched' = "catchup" => timerId' = <<>>)
        /\ (lastCheck' # "none" /\ lastSched' = "none" =>
              /\ Len(timerId) = 1
              /\ timerId[1].cl = closure
              /\ timerId' = <<>>)
        /\ (ops' # ops /\ (emailStatus' # emailStatus \/ pc' # pc) =>
              timerId' = <<>>)
      ]_vars

\* C18 witness: before 06:00 of the first day the effect armed a timer on
\* mount, the user added a payment, and the effect armed anew: the one armed
\* timer holds the list with the payment
Wit_C18 ==
    /\ now = [day |-> 1, after6 |-> FALSE]
    /\ lastSched = "today"
    /\ Len(timerId) = 1
    /\ timerId[1].cl.payments # <<>>
    /\ timerId[1].cl.payments = payments

\* C19 (as stated): a check that finds no actionable payment calls no
\* Notifier, appends no log entry, leaves lastEmailSentDate and
\* lastEmailSentTo unchanged, and leaves the status idle.
Cex_C19 ==
    [][ lastCheck' = "no_actionable" =>
          /\ called' = None
          /\ pc' = "idle"
          /\ UNCHANGED <<emailLogs, lastEmailSentDate, lastEmailSentTo>>
          /\ emailStatus' = "idle"
      ]_vars

\* C20: a run's send list holds its payments in the order of the payments
\* list; the Notifier is called for its first item when the run starts and
\* for the next item only from the pause that follows the return of the
\* previous call, never for the same or an earlier item again; a return with
\* a failure goes on to the next item when there is one; and a run that no
\* missing_config return stopped ends only after the call for its last item.
Thm_C20 ==
    [][ /\ (lastCheck' = "started" =>
              /\ run'.toSend = SelectSeq(payments, LAMBDA p : p.id \in toSendIds(run'))
              /\ run'.i = 1
              /\ called' = run'.toSend[1].id)
        /\ (called' # None /\ lastCheck' # "started" =>
              /\ pc = "delay"
              /\ run'.toSend = run.toSend
              /\ run'.i = run.i + 1
              /\ called' = run.toSend[run.i + 1].id)
        /\ (pc # "idle" /\ pc' # "idle" /\ called' = None => run'.i = run.i)
        /\ (returned'.result = "error" /\ returned'.later > 0 =>
              /\ pc' = "delay"
              /\ ~runEnded')
        /\ (runEnded' /\ returned'.result # "missing_config" =>
              /\ run.i = Len(run.toSend)
              /\ \A j, k \in 1..Len(run.toSend) :
                    j # k => run.toSend[j].id # run.toSend[k].id)
      ]_vars

\* C20 witness: a run of two items has ended; the first send failed, the
\* second was still made and succeeded
Wit_C20 ==
    /\ runEnded
    /\ Len(endedRun.toSend) = 2
    /\ Len(emailLogs) - endedRun.logsAtStart = 2
    /\ emailLogs[2].paymentId = endedRun.toSend[1].id
    /\ emailLogs[2].status = "failed"
    /\ emailLogs[1].paymentId = endedRun.toSend[2].id
    /\ emailLogs[1].status = "success"

Thm_C22 ==
    [][ /\ (lastCheck' = "already_sent" =>
              /\ actionablePayments(payments, now) # <<>>
              /\ lastEmailSentTo = recipientEmail
              /\ \A k \in 1..Len(payments) :
                    isActionable(payments[k], now) =>
                       hasSuccessOn(emailLogs, payments[k].id, ToDateString(now))
              /\ called' = None
              /\ UNCHANGED <<emailLogs, lastEmailSentDate, lastEmailSentTo,
                             isSendingRef, pc, run>>
              /\ ~isSendingRef'
              /\ emailStatus' = (IF emailStatus \in {"sent", "already_sent"}
                                 THEN emailStatus ELSE "already_sent"))
        /\ ((/\ lastCheck' \notin {"none", "dropped"}
             /\ actionablePayments(payments, now) # <<>>
             /\ lastEmailSentTo = recipientEmail
             /\ \A k \in 1..Len(payments) :
                   isActionable(payments[k], now) =>
                      hasSuccessOn(emailLogs, payments[k].id, ToDateString(now)))
              => lastCheck' = "already_sent")
      ]_vars

\* C22 witness: the check found everything already sent and changed the
\* status from idle to already_sent
Wit_C22 ==
    /\ lastCheck = "already_sent"
    /\ emailStatus = "already_sent"
    /\ ~isSendingRef
    /\ emailLogs # <<>>

\* a timer armed for 06:00 of today's date sits in the slot
armedForToday == Len(timerId) = 1 /\ timerId[1].target = now.day

\* C23: an evaluation of the effect before 06:00, with a stored
\* lastEmailSentDate other than today, invokes no check and arms exactly one
\* timer, for 06:00 of today, holding the values of that evaluation; no check
\* is invoked before 06:00; when the clock reaches 06:00 with that timer still
\* armed the timer is due, the clock does not move on before it has fired,
\* firing is possible, and the step that removes it either is a
\* re-evaluation after a change (which cancels it) or invokes the check.
Thm_C23 ==
    [][ /\ (pendingEffect /\ lastSched' # "none" /\ ~now.after6
              /\ lastEmailSentDate # ToDateString(now)) =>
              /\ lastSched' = "today"
              /\ lastCheck' = "none"
              /\ called' = None
              /\ timerId' = <<[target |-> now.day, cl |-> closure]>>
        /\ (lastSched' = "today" =>
              ~now.after6 /\ lastEmailSentDate # ToDateString(now))
        /\ (lastCheck' # "none" => now.after6)
        /\ (armedForToday /\ ~now.after6 /\ now'.after6) =>
              /\ timerId' = timerId
              /\ now'.day = now.day
              /\ ~pendingEffect'
        /\ (armedForToday /\ now.after6 /\ ~pendingEffect) =>
              /\ ENABLED timerFire
              /\ now' = now
              /\ (timerId' # timerId =>
                    \/ (lastCheck' # "none" /\ timerId' = <<>>)
                    \/ (ops' # ops /\ timerId' = <<>> /\ pendingEffect'))
      ]_vars

\* C23 witness: the timer armed before 06:00 has fired at 06:00 of the same
\* day and the check it invoked has started a run
Wit_C23 ==
    /\ lastCheck = "started"
    /\ lastSched = "none"
    /\ now.after6
    /\ timerId = <<>>
    /\ lastEmailSentDate # ToDateString(now)

\* the log has room for every entry the run in progress may still add
roomInLog == Len(emailLogs) + (Len(run.toSend) - run.i) < MaxLogs

\* C24: while a run holds the guard, a user action leaves the run and its
\* position as they are; the guard is released only by the step that ends
\* the run, after the call for the last item or on a missing_config return,
\* with the status then sent, error or missing_config, or by a reload; and,
\* the Notifier calls returning, a run that holds the guard is followed by a
\* state in which the guard is free.
Thm_C24 ==
    /\ [][ /\ (isSendingRef /\ isSendingRef' /\ ops' # ops) =>
                 run' = run /\ pc' = pc
           /\ (isSendingRef /\ ~isSendingRef') =>
                 \/ /\ runEnded'
                    /\ pc' = "idle"
                    /\ emailStatus' \in {"sent", "error", "missing_config"}
                    /\ (returned'.result = "missing_config"
                          \/ run.i = Len(run.toSend))
                 \/ (ops' # ops /\ emailStatus' = "idle" /\ ~runEnded')
           /\ (runEnded' => isSendingRef /\ ~isSendingRef')
         ]_vars
    /\ ((isSendingRef /\ roomInLog) ~> ~isSendingRef)

\* C24 witness: a run ended with the guard free and a final status although
\* the recipient was changed while it was suspended
Wit_C24 ==
    /\ runEnded
    /\ ~isSendingRef
    /\ emailStatus \in {"sent", "error", "missing_config"}
    /\ endedRun.recipientEmail # recipientEmail

\* the values of EmailStatus
EmailStatuses == {"idle", "sending", "sent", "already_sent", "error", "missing_config"}

\* C25: the status starts as idle with the guard free; in every state it is
\* one of the six values, it is sending exactly when the guard is held, and
\* the guard is held exactly while a run is between its start and its end.
Thm_C25 ==
    /\ (emailStatus = "idle" /\ ~isSendingRef)
    /\ [](/\ emailStatus \in EmailStatuses
          /\ (emailStatus = "sending" <=> isSendingRef)
          /\ (isSendingRef <=> pc # "idle")
          /\ (isSendingRef <=> run # NoRun))

\* C25 witness: a run is suspended in its pause after a user action, the
\* guard held and the status sending
Wit_C25 ==
    /\ emailStatus = "sending"
    /\ isSendingRef
    /\ pc = "delay"
    /\ run.hasErrors
    /\ ops > 1

\* C26 (as stated): whenever the Notifier is called for a payment, that
\* payment is in the payments list and is not paid for the current month.
Cex_C26 ==
    [][ called' # None =>
          \E k \in 1..Len(payments) :
             /\ payments[k].id = called'
             /\ ~isPaidThisMonth(payments[k], now)
      ]_vars

toggleStepAt(k) ==
    /\ Len(payments') = Len(payments)
    /\ payments'[k].lastPaidDate # payments[k].lastPaidDate
    /\ \A j \in 1..Len(payments) : j # k => payments'[j] = payments[j]

\* C28: a step that changes a lastPaidDate changes it for one payment only
\* and leaves that payment's other fields and every other payment as they
\* were; a payment never paid or last paid in an earlier month gets
\* lastPaidDate = now and is then paid this month, a payment paid this month
\* loses its lastPaidDate and is then unpaid; and a second toggle of the same
\* payment, now or later in the same month, gives it back the paid or unpaid
\* state it had before the first.
Thm_C28 ==
    [][ (\E k \in 1..Len(payments) :
            /\ Len(payments') = Len(payments)
            /\ payments'[k].id = payments[k].id
            /\ payments'[k].lastPaidDate # payments[k].lastPaidDate) =>
          \E k \in 1..Len(payments) :
             LET p == payments[k]
                 q == payments'[k]
             IN  /\ toggleStepAt(k)
                 /\ q = [p EXCEPT !.lastPaidDate = q.lastPaidDate]
                 /\ settledThisMonth(p) => q.lastPaidDate = NoTime
                 /\ ~settledThisMonth(p) =>
                       /\ q.lastPaidDate = toISOString(now)
                       /\ isPaidThisMonth(q, now)
                 /\ isPaidThisMonth(q, now) = ~isPaidThisMonth(p, now)
                 /\ \A t \in {now, [now EXCEPT !.after6 = TRUE],
                              [day |-> now.day + 1, after6 |-> FALSE]} :
                       GetMonth(t) = GetMonth(now) =>
                          isPaidThisMonth(toggled(q, t), t) = isPaidThisMonth(p, now)
      ]_vars

\* C28 witness: of two payments the first has been toggled and carries
\* today's date, the second is as it was added
Wit_C28 ==
    /\ Len(payments) = 2
    /\ payments[1].lastPaidDate = toISOString(now)
    /\ payments[2].lastPaidDate = NoTime

\* C29 (as stated): when the extraction returns, the new task list is the
\* extracted tasks followed by the task list of that moment, and the new
\* history is the history of that moment up to its index followed by the new
\* list.
Cex_C29 ==
    [][ lastTaskOp' = "processed" =>
          /\ Len(tasks') >= Len(tasks)
          /\ SubSeq(tasks', Len(tasks') - Len(tasks) + 1, Len(tasks')) = tasks
          /\ taskIdsOf(SubSeq(tasks', 1, Len(tasks') - Len(tasks)))
                \cap taskIdsOf(tasks) = {}
          /\ history' = Append(SubSeq(history, 1, historyIndex + 1), tasks')
      ]_vars

\* C30: in every state historyIndex lies within 0..Len(history)-1 and the
\* task list is the entry of history at historyIndex; an undo above index 0
\* moves one entry back, leaves history as it is, and a redo from there leads
\* back to the list shown before; a redo below the last index moves one entry
\* forward; an undo at index 0 and a redo at the last index change nothing.
Thm_C30 ==
    /\ [](/\ historyIndex \in 0..(Len(history) - 1)
          /\ tasks = history[historyIndex + 1])
    /\ [][ /\ (lastTaskOp' = "undo" /\ historyIndex > 0) =>
                 /\ historyIndex' = historyIndex - 1
                 /\ history' = history
                 /\ tasks' = history[historyIndex]
                 /\ historyIndex' < Len(history') - 1
                 /\ history'[historyIndex' + 2] = tasks
           /\ (lastTaskOp' = "redo" /\ historyIndex < Len(history) - 1) =>
                 /\ historyIndex' = historyIndex + 1
                 /\ history' = history
                 /\ tasks' = history[historyIndex + 2]
           /\ (\/ (lastTaskOp' = "undo" /\ historyIndex = 0)
               \/ (lastTaskOp' = "redo" /\ historyIndex = Len(history) - 1)) =>
                 UNCHANGED <<tasks, history, historyIndex>>
           /\ (lastTaskOp' \in {"undo", "redo"}) => UNCHANGED processing
         ]_vars

\* C30 witness: after edits and an undo, a redo has brought back a list that
\* differs from the one before it in history
Wit_C30 ==
    /\ lastTaskOp = "redo"
    /\ historyIndex >= 2
    /\ tasks = history[historyIndex + 1]
    /\ tasks # history[historyIndex]
    /\ tasks # <<>>

====
